---- MODULE Spec2Model ----
(***************************************************************************)
(* Model of the AICC situation-report pipeline of hnl_fire_data:           *)
(*   download_reports, extract_zone, assemble_dataframe, add_psa,          *)
(*   aggregate_by_day_region (firetallytools.py) and the part of main      *)
(*   (update_firetally.py) that chains them.                               *)
(*                                                                         *)
(* Text is a sequence of one-character strings.  A table (DataFrame) is a  *)
(* sequence of records, one record per row.  A missing cell is NaN.        *)
(***************************************************************************)
EXTENDS Integers, Sequences, FiniteSets, TLC

VARIABLES
    datadir,            \* report directory: date stamp -> rows of that file
    ppc,                \* position of main in the pipeline
    all_updates,        \* main's all_updates table
    all_updates_PSA,    \* main's all_updates_PSA table
    dailyarea_by_PSA,   \* main's PSA tally
    dailyarea_by_Zone   \* main's Zone tally

pipevars == <<datadir, ppc, all_updates, all_updates_PSA,
              dailyarea_by_PSA, dailyarea_by_Zone>>

VARIABLES
    fpc,                \* position of download_reports
    overwrite,          \* its overwrite argument
    outdir,             \* date stamps whose target file exists in outdir
    outdir0,            \* the same when download_reports was called
    day,                \* number of dates of the range the loop has finished
    requests,           \* every requests.get made, in order, with its outcome
    writes,             \* date stamps of the files written, in order
    printed,            \* messages printed, in order
    lastdate            \* the local lastdate (0 stands for None)

fetchvars == <<fpc, overwrite, outdir, outdir0, day, requests, writes, printed, lastdate>>

VARIABLES
    apc,                \* position of a call of aggregate_by_day_region
    updatesDF,          \* its table argument
    region,             \* its region argument
    dailyarea_agg,      \* the table it returns (the set of its rows)
    aprinted,           \* messages it printed, in order
    dailyarea_again     \* what a second call, on the table returned, returns

aggvars == <<apc, updatesDF, region, dailyarea_agg, aprinted, dailyarea_again>>

VARIABLES
    olddatafp,          \* the legacy CSV: whether it exists, and its data rows
    olddata,            \* main's olddata table (columns and rows)
    dailyarea_by_Zone_reformatted,  \* main's reformatted Zone tally
    alldaily_totals,    \* main's combined table
    olddata_daily       \* main's olddata_daily table (the set of its rows)

mergevars == <<olddatafp, olddata, dailyarea_by_Zone_reformatted,
               alldaily_totals, olddata_daily>>

VARIABLES
    lpc,                \* where the call of download_lightning_data is
    service,            \* the feature service: how many records it holds and
                        \* the most it returns for one query
    offset,             \* download_lightning_data's offset
    all_features,       \* download_lightning_data's all_features
    sent,               \* the queries sent, in order: the resultOffset of each
                        \* and the length of all_features when it was sent
    lend                \* what ended the loop

lightvars == <<lpc, service, offset, all_features, sent, lend>>

vars == <<pipevars, fetchvars, aggvars, mergevars, lightvars>>

-----------------------------------------------------------------------------
(* Bounds of the model *)

MaxRawLen == 5      \* longest generated protecting-office text
MaxDays == 3        \* number of calendar days with a possible report file
MaxRows == 2        \* most rows in one report file
MaxAggRows == 2     \* most rows of a table handed to aggregate_by_day_region
MaxRecords == 2     \* most records in the report files of a run of main
MaxOldRows == 2     \* most data rows of the legacy CSV
MaxPages == 2       \* most full pages of records the feature service holds

-----------------------------------------------------------------------------
(* Text helpers *)

Min(a, b) == IF a < b THEN a ELSE b

\* str.find(ch): 0-based index of the first occurrence, -1 when there is none
find(s, ch) ==
    IF \E i \in 1..Len(s) : s[i] = ch
    THEN (CHOOSE i \in 1..Len(s) : s[i] = ch /\ \A j \in 1..(i-1) : s[j] # ch) - 1
    ELSE -1

\* Python slice s[a:b] for 0 <= a <= b (the end is clamped to the length)
Slice(s, a, b) == SubSeq(s, a + 1, Min(b, Len(s)))

\* pandas' missing value (NaN / None / pd.NA) in a text column
NaN == <<"NaN">>

\* the missing value in the Acres column, whose present values are numbers >= 0
AcresNaN == 0 - 1

\* the missing value in the 'Incident Type' column, whose values are atoms here
TypeNaN == "NaN"

NA_LABEL == <<"n","/","a">>

-----------------------------------------------------------------------------
(* The zone-code table *)

PROTECTING_OFFICES ==
     (<<"M","S","S">> :> <<"M","a","t","-","S","u"," ","A","r","e","a">>) @@
     (<<"T","N","F">> :> <<"T","o","n","g","a","s","s"," ","N",".","F",".">>) @@
     (<<"U","Y","D">> :> <<"U","p","p","e","r"," ","Y","u","k","o","n"," ","Z","o","n","e">>) @@
     (<<"K","K","S">> :> <<"K","e","n","a","i","-","K","o","d","i","a","k"," ","A","r","e","a">>) @@
     (<<"C","R","S">> :> <<"C","o","p","p","e","r"," ","R","i","v","e","r"," ","A","r","e","a">>) @@
     (<<"T","A","D">> :> <<"T","a","n","a","n","a"," ","Z","o","n","e">>) @@
     (<<"D","A","S">> :> <<"D","e","l","t","a"," ","A","r","e","a">>) @@
     (<<"F","A","S">> :> <<"F","a","i","r","b","a","n","k","s"," ","A","r","e","a">>) @@
     (<<"M","I","D">> :> <<"M","i","l","i","t","a","r","y"," ","Z","o","n","e">>) @@
     (<<"C","G","F">> :> <<"C","h","u","g","a","c","h"," ","N",".","F",".">>) @@
     (<<"T","A","S">> :> <<"T","o","k"," ","A","r","e","a">>) @@
     (<<"G","A","D">> :> <<"G","a","l","e","n","a"," ","Z","o","n","e">>) @@
     (<<"S","W","S">> :> <<"S","o","u","t","h","w","e","s","t"," ","A","r","e","a">>)

ZoneCodes == DOMAIN PROTECTING_OFFICES
ZoneLabels == {PROTECTING_OFFICES[k] : k \in ZoneCodes}

\* dict lookup PROTECTING_OFFICES[key] raises KeyError unless this holds
HasKey(key) == key \in ZoneCodes

\* extract_zone: nested try/except KeyError around two dict lookups
extract_zone(row) ==
    LET po  == row.PO
        idx == find(po, "(")
        key == Slice(po, idx + 1, idx + 4)
    IN  IF HasKey(key) THEN PROTECTING_OFFICES[key]
        ELSE IF HasKey(po) THEN PROTECTING_OFFICES[po]
        ELSE po

\* Series.fillna("n/a")
fillna(v) == IF v = NaN THEN NA_LABEL ELSE v

\* the dict built in assemble_dataframe: canonical label -> code, "n/a" -> "n/a"
protecting_offices_rev ==
    [l \in ZoneLabels \cup {NA_LABEL} |->
        IF l = NA_LABEL THEN NA_LABEL
        ELSE CHOOSE k \in ZoneCodes : PROTECTING_OFFICES[k] = l]

\* Series.map(dict): a value that is no key of the dict becomes NaN
map_rev(label) ==
    IF label \in DOMAIN protecting_offices_rev
    THEN protecting_offices_rev[label]
    ELSE NaN

-----------------------------------------------------------------------------
(* Report files and assemble_dataframe *)

STARTDATE == 20250420

\* the date stamps YYYYMMDD a report file can carry (all within one month, so
\* the order of the 8-character stamps is the order of the numbers)
ReportDates == {STARTDATE + k : k \in 0..(MaxDays - 1)}

\* one row of a report file as pd.read_excel returns it
FileRow(oid, po, itype, acres, loc) ==
    [OBJECTID |-> oid, PO |-> po, IncidentType |-> itype, Acres |-> acres, Loc |-> loc]

\* current['reportdate'] = datestamp; current.drop(columns=['OBJECTID'])
TagRow(row, datestamp) ==
    [PO |-> row.PO, IncidentType |-> row.IncidentType, Acres |-> row.Acres,
     Loc |-> row.Loc, reportdate |-> datestamp]

TagFile(rows, datestamp) == [i \in 1..Len(rows) |-> TagRow(rows[i], datestamp)]

\* the orders in which datadir.glob may yield the files
GlobOrders(dir) ==
    {s \in [1..Cardinality(DOMAIN dir) -> DOMAIN dir] :
        \A i, j \in DOMAIN s : i # j => s[i] # s[j]}

\* pd.concat(results), results in glob order
RECURSIVE concat(_, _)
concat(dir, order) ==
    IF order = <<>> THEN <<>>
    ELSE TagFile(dir[Head(order)], Head(order)) \o concat(dir, Tail(order))

RECURSIVE SortsOf(_, _)
SortsOf(t, idx) ==
    IF idx = {} THEN {<<>>}
    ELSE UNION {{<<t[i]>> \o rest : rest \in SortsOf(t, idx \ {i})} :
                i \in {i \in idx : \A j \in idx : t[i].reportdate <= t[j].reportdate}}

\* the sort left out: the rows stay in concatenation order
sort_values_skipped(t) == {t}

\* DataFrame.sort_values(['reportdate']): the default sort is not stable, so
\* rows of equal date come out in any order
sort_values(t) == SortsOf(t, DOMAIN t)

\* fillna, apply(extract_zone, axis=1) and map(protecting_offices_rev) on one row
NormalizeRow(row) ==
    LET filled == [row EXCEPT !.PO = fillna(row.PO)]
        label  == extract_zone(filled)
    IN  [PO |-> label, POLabel |-> map_rev(label),
         IncidentType |-> row.IncidentType, Acres |-> row.Acres,
         Loc |-> row.Loc, reportdate |-> row.reportdate]

\* the tables assemble_dataframe can return for a non-empty directory
assemble_dataframe(dir) ==
    UNION {{[i \in DOMAIN sorted |-> NormalizeRow(sorted[i])] :
                sorted \in sort_values(concat(dir, order))} :
           order \in GlobOrders(dir)}

\* main step 2.  With no matching file pd.concat([]) raises ValueError.
Assemble ==
    /\ ppc = "start"
    /\ IF DOMAIN datadir = {}
       THEN /\ ppc' = "ValueError"
            /\ UNCHANGED all_updates
       ELSE /\ \E t \in assemble_dataframe(datadir) : all_updates' = t
            /\ ppc' = "assembled"
    /\ UNCHANGED <<datadir, all_updates_PSA, dailyarea_by_PSA, dailyarea_by_Zone>>
    /\ UNCHANGED <<fetchvars, aggvars, mergevars, lightvars>>

-----------------------------------------------------------------------------
(* download_reports *)

\* pd.date_range(startdatestr, today, freq='d'): the k-th date of the range
DateAt(k) == STARTDATE + (k - 1)

\* what requests.get can do: return a response with a status code, or raise
\* (connection error, timeout); download_reports has no try/except
StatusCodes == {200, 404, 500}
Outcomes == [raised : {FALSE}, status : StatusCodes] \cup [raised : {TRUE}, status : {0}]

Request(d, url, o) == [date |-> d, url |-> url, raised |-> o.raised, status |-> o.status]

\* the skip test inverted: skips when overwrite is requested
SkipDownload_inverted(d) == d \in outdir /\ overwrite

\* outpath.exists() and not overwrite
SkipDownload(d) == d \in outdir /\ ~overwrite

\* any status taken for success
IsSuccess_any(status) == TRUE

\* response.status_code == 200
IsSuccess(status) == status = 200

\* for-loop head: the range is exhausted, return lastdate
FetchReturn ==
    /\ fpc = "loop"
    /\ day = MaxDays
    /\ fpc' = "returned"
    /\ UNCHANGED <<overwrite, outdir, outdir0, day, requests, writes, printed, lastdate>>
    /\ UNCHANGED <<pipevars, aggvars, mergevars, lightvars>>

\* the target file exists and overwrite is off: print and continue
FetchSkip ==
    /\ fpc = "loop"
    /\ day < MaxDays
    /\ SkipDownload(DateAt(day + 1))
    /\ printed' = Append(printed, <<"already exists", DateAt(day + 1)>>)
    /\ day' = day + 1
    /\ UNCHANGED <<fpc, overwrite, outdir, outdir0, requests, writes, lastdate>>
    /\ UNCHANGED <<pipevars, aggvars, mergevars, lightvars>>

\* requests.get of the URL with the MM_YYYY subdirectory, and the success branch
FetchPrimary ==
    /\ fpc = "loop"
    /\ day < MaxDays
    /\ ~SkipDownload(DateAt(day + 1))
    /\ \E o \in Outcomes :
        LET d == DateAt(day + 1)
        IN  /\ requests' = Append(requests, Request(d, "primary", o))
            /\ IF o.raised
               THEN /\ fpc' = "raised"
                    /\ UNCHANGED <<outdir, day, writes, printed, lastdate>>
               ELSE IF IsSuccess(o.status)
               THEN /\ outdir' = outdir \cup {d}
                    /\ writes' = Append(writes, d)
                    /\ printed' = Append(printed, <<"Downloaded", d>>)
                    /\ lastdate' = d
                    /\ day' = day + 1
                    /\ UNCHANGED fpc
               ELSE /\ fpc' = "fallback"
                    /\ UNCHANGED <<outdir, day, writes, printed, lastdate>>
    /\ UNCHANGED <<overwrite, outdir0>>
    /\ UNCHANGED <<pipevars, aggvars, mergevars, lightvars>>

\* requests.get of the URL without subdirectory, and both branches after it
FetchFallback ==
    /\ fpc = "fallback"
    /\ \E o \in Outcomes :
        LET d == DateAt(day + 1)
        IN  /\ requests' = Append(requests, Request(d, "fallback", o))
            /\ IF o.raised
               THEN /\ fpc' = "raised"
                    /\ UNCHANGED <<outdir, day, writes, printed, lastdate>>
               ELSE IF IsSuccess(o.status)
               THEN /\ outdir' = outdir \cup {d}
                    /\ writes' = Append(writes, d)
                    /\ printed' = Append(printed, <<"Downloaded", d>>)
                    /\ lastdate' = d
                    /\ day' = day + 1
                    /\ fpc' = "loop"
               ELSE /\ printed' = Append(printed, <<"File not present on server", d>>)
                    /\ day' = day + 1
                    /\ fpc' = "loop"
                    /\ UNCHANGED <<outdir, writes, lastdate>>
    /\ UNCHANGED <<overwrite, outdir0>>
    /\ UNCHANGED <<pipevars, aggvars, mergevars, lightvars>>

-----------------------------------------------------------------------------
(* main step 3, add_psa and aggregate_by_day_region *)

EXCLUDE_TYPES == {"RX-Prescribed Fire", "FA-False Alarm"}

\* all_updates.dropna(subset=['Incident Type']), then one query per excluded type
FilterTypes(t) ==
    SelectSeq(t, LAMBDA r : r.IncidentType # TypeNaN /\ r.IncidentType \notin EXCLUDE_TYPES)

\* The PSA layer (resources/AK_predictive_service_areas.json): polygons with the
\* attributes kept after the join.  The polygons do not overlap.
psa_GDF ==
    {[PSA_NAME |-> "Tanana Valley", NAT_CODE |-> "AK03", covers |-> "inP1"],
     [PSA_NAME |-> "Kenai Peninsula", NAT_CODE |-> "AK11", covers |-> "inP2"]}

\* the point (Longitude, Latitude) of a record lies in one polygon or in none
Locations == {"inP1", "inP2", "outside"}

JoinRow(r, poly) ==
    [PO |-> r.PO, POLabel |-> r.POLabel, IncidentType |-> r.IncidentType,
     Acres |-> r.Acres, Loc |-> r.Loc, reportdate |-> r.reportdate,
     PSA_NAME |-> poly.PSA_NAME, NAT_CODE |-> poly.NAT_CODE]

\* gp.sjoin(points, polygons, predicate='within', how='inner'): one row per
\* (record, polygon containing it); a record in no polygon is dropped
RECURSIVE sjoin(_)
sjoin(t) ==
    IF t = <<>> THEN <<>>
    ELSE LET hits == {poly \in psa_GDF : poly.covers = Head(t).Loc}
         IN  (IF hits = {} THEN <<>>
              ELSE <<JoinRow(Head(t), CHOOSE poly \in hits : TRUE)>>) \o sjoin(Tail(t))

add_psa(t) == sjoin(t)

GROUPINGS ==
    [PSA  |-> <<"reportdate", "PSA_NAME", "NAT_CODE">>,
     Zone |-> <<"reportdate", "PO", "POLabel">>]

\* pd.isna of a cell of the named column (dates and PSA attributes are always
\* present: they come from the file names and from the PSA layer)
isna(col, v) ==
    IF col = "Acres" THEN v = AcresNaN
    ELSE IF col \in {"PO", "POLabel"} THEN v = NaN
    ELSE FALSE

KeyOf(row, cols) == [i \in DOMAIN cols |-> row[cols[i]]]

\* groupby(cols) with pandas' default dropna=True: rows whose key has a
\* missing part belong to no group
GroupKeys(t, cols) ==
    {KeyOf(t[i], cols) : i \in {i \in DOMAIN t :
                                  \A c \in DOMAIN cols : ~isna(cols[c], t[i][cols[c]])}}

\* the number of present Acres values of one group instead of their sum
SumAcres_count(t, cols, key) ==
    Cardinality({i \in DOMAIN t : KeyOf(t[i], cols) = key /\ ~isna("Acres", t[i].Acres)})

\* .sum() of the Acres of one group: missing values are skipped
RECURSIVE SumAcres(_, _, _)
SumAcres(t, cols, key) ==
    IF t = <<>> THEN 0
    ELSE (IF KeyOf(Head(t), cols) = key /\ ~isna("Acres", Head(t).Acres)
          THEN Head(t).Acres ELSE 0) + SumAcres(Tail(t), cols, key)

AggRow(cols, key, acres) ==
    [c \in {cols[i] : i \in DOMAIN cols} \cup {"Acres"} |->
        IF c = "Acres" THEN acres
        ELSE key[CHOOSE i \in DOMAIN cols : cols[i] = c]]

\* groupby(...).sum().reset_index(): one row per group
GroupSum(t, cols) ==
    {AggRow(cols, key, SumAcres(t, cols, key)) : key \in GroupKeys(t, cols)}

\* replace(0, pd.NA) on Acres, then dropna
DropZero(rows) ==
    LET replaced == {[r EXCEPT !["Acres"] = IF r["Acres"] = 0 THEN AcresNaN ELSE r["Acres"]]
                        : r \in rows}
    IN  {r \in replaced : ~isna("Acres", r["Acres"])}

\* aggregate_by_day_region.  For an unknown region the KeyError of
\* GROUPINGS[region] is caught and the message printed; the next statement then
\* reads the unassigned local dailyarea_agg, which raises UnboundLocalError.
aggregate_by_day_region(t, reg) ==
    IF reg \in DOMAIN GROUPINGS
    THEN [outcome |-> "returned",
          printed |-> <<>>,
          table   |-> DropZero(GroupSum(t, GROUPINGS[reg]))]
    ELSE [outcome |-> "UnboundLocalError",
          printed |-> <<<<"Grouping is unknown. Try one of", "PSA, Zone">>>>,
          table   |-> {}]

\* a call of aggregate_by_day_region
Aggregate ==
    /\ apc = "call"
    /\ LET res == aggregate_by_day_region(updatesDF, region)
       IN  /\ apc' = res.outcome
           /\ aprinted' = aprinted \o res.printed
           /\ dailyarea_agg' = res.table
    /\ UNCHANGED <<updatesDF, region, dailyarea_again>>
    /\ UNCHANGED <<pipevars, fetchvars, mergevars, lightvars>>

\* main step 3: drop the rows without incident type and of the excluded types
Filter ==
    /\ ppc = "assembled"
    /\ all_updates' = FilterTypes(all_updates)
    /\ ppc' = "filtered"
    /\ UNCHANGED <<datadir, all_updates_PSA, dailyarea_by_PSA, dailyarea_by_Zone>>
    /\ UNCHANGED <<fetchvars, aggvars, mergevars, lightvars>>

\* main step 3: the spatial join
AddPsa ==
    /\ ppc = "filtered"
    /\ all_updates_PSA' = add_psa(all_updates)
    /\ ppc' = "joined"
    /\ UNCHANGED <<datadir, all_updates, dailyarea_by_PSA, dailyarea_by_Zone>>
    /\ UNCHANGED <<fetchvars, aggvars, mergevars, lightvars>>

\* main step 4: the PSA tally
TallyPSA ==
    /\ ppc = "joined"
    /\ LET res == aggregate_by_day_region(all_updates_PSA, "PSA")
       IN  /\ ppc' = IF res.outcome = "returned" THEN "tallied PSA" ELSE res.outcome
           /\ dailyarea_by_PSA' = res.table
    /\ UNCHANGED <<datadir, all_updates, all_updates_PSA, dailyarea_by_Zone>>
    /\ UNCHANGED <<fetchvars, aggvars, mergevars, lightvars>>

\* main step 4: the Zone tally
TallyZone ==
    /\ ppc = "tallied PSA"
    /\ LET res == aggregate_by_day_region(all_updates_PSA, "Zone")
       IN  /\ ppc' = IF res.outcome = "returned" THEN "tallied Zone" ELSE res.outcome
           /\ dailyarea_by_Zone' = res.table
    /\ UNCHANGED <<datadir, all_updates, all_updates_PSA, dailyarea_by_PSA>>
    /\ UNCHANGED <<fetchvars, aggvars, mergevars, lightvars>>

-----------------------------------------------------------------------------
(* main step 6: load_old_data, reformat_newdata, combine_daily_totals,
   olddata_to_daily *)

\* the missing value in a column of whole numbers (it reads as NaN)
CountNaN == 0 - 1

\* pd.to_datetime of year, month, day, and the .dt accessors; a date is the
\* number YYYYMMDD
to_datetime(y, m, d) == (y * 10000) + (m * 100) + d
YearOf(date) == date \div 10000
MonthOf(date) == (date \div 100) % 100
DayOf(date) == date % 100

Restrict(r, cols) == [c \in cols |-> r[c]]

\* the columns of the legacy CSV that the code names
OldCsvColumns ==
    {"ID", "FireSeason", "SitReportDate", "Month", "Day",
     "ProtectionUnit", "TotalFires", "TotalAcres"}

\* load_old_data: the table it returns, or KeyError when a date part was
\* dropped for holding a missing value
load_old_data(csvrows) ==
    LET cols1   == OldCsvColumns \ {"ID"}
        intcols == cols1 \ {"TotalAcres", "ProtectionUnit", "SitReportDate"}
        dropped == {c \in intcols : \E i \in DOMAIN csvrows : csvrows[i][c] = CountNaN}
        kept    == cols1 \ dropped
        columns == ((kept \ {"FireSeason", "SitReportDate", "TotalAcres"})
                        \cup {"Year", "reportdate", "Acres"})
        Row(r)  == [c \in columns |->
                      IF c = "Year" THEN r.FireSeason
                      ELSE IF c = "Acres" THEN r.TotalAcres
                      ELSE IF c = "reportdate" THEN to_datetime(r.FireSeason, r.Month, r.Day)
                      ELSE r[c]]
    IN  IF {"FireSeason", "Month", "Day"} \cap dropped # {}
        THEN [outcome |-> "KeyError", columns |-> {}, rows |-> <<>>]
        ELSE [outcome |-> "returned", columns |-> columns,
              rows |-> [i \in DOMAIN csvrows |-> Row(csvrows[i])]]

\* the order of the zone labels in a sorted index ('n/a' sorts last)
SortedLabels ==
    <<<<"C","h","u","g","a","c","h"," ","N",".","F",".">>,
      <<"C","o","p","p","e","r"," ","R","i","v","e","r"," ","A","r","e","a">>,
      <<"D","e","l","t","a"," ","A","r","e","a">>,
      <<"F","a","i","r","b","a","n","k","s"," ","A","r","e","a">>,
      <<"G","a","l","e","n","a"," ","Z","o","n","e">>,
      <<"K","e","n","a","i","-","K","o","d","i","a","k"," ","A","r","e","a">>,
      <<"M","a","t","-","S","u"," ","A","r","e","a">>,
      <<"M","i","l","i","t","a","r","y"," ","Z","o","n","e">>,
      <<"S","o","u","t","h","w","e","s","t"," ","A","r","e","a">>,
      <<"T","a","n","a","n","a"," ","Z","o","n","e">>,
      <<"T","o","k"," ","A","r","e","a">>,
      <<"T","o","n","g","a","s","s"," ","N",".","F",".">>,
      <<"U","p","p","e","r"," ","Y","u","k","o","n"," ","Z","o","n","e">>,
      <<"n","/","a">>>>

SortedPsaNames == <<"Kenai Peninsula", "Tanana Valley">>

\* position of a row's region among the sorted regions
RegionRank(r) ==
    IF "PO" \in DOMAIN r
    THEN CHOOSE k \in DOMAIN SortedLabels : SortedLabels[k] = r["PO"]
    ELSE CHOOSE k \in DOMAIN SortedPsaNames : SortedPsaNames[k] = r["PSA_NAME"]

\* the rows of a tally as the table groupby leaves them: sorted by the key
AsTable(rows) ==
    CHOOSE t \in [1..Cardinality(rows) -> rows] :
        /\ \A r \in rows : \E i \in DOMAIN t : t[i] = r
        /\ \A i, j \in DOMAIN t :
              i < j => \/ t[i]["reportdate"] < t[j]["reportdate"]
                       \/ /\ t[i]["reportdate"] = t[j]["reportdate"]
                          /\ RegionRank(t[i]) < RegionRank(t[j])

\* aggregate_by_day_region called with the table it returned and the same region
Reaggregate ==
    /\ apc = "returned"
    /\ LET res == aggregate_by_day_region(AsTable(dailyarea_agg), region)
       IN  /\ apc' = IF res.outcome = "returned" THEN "returned again" ELSE res.outcome
           /\ aprinted' = aprinted \o res.printed
           /\ dailyarea_again' = res.table
    /\ UNCHANGED <<updatesDF, region, dailyarea_agg>>
    /\ UNCHANGED <<pipevars, fetchvars, mergevars, lightvars>>

\* reformat_newdata on one row: Year, Month, Day added, 'Protecting Office
\* Label' renamed to ProtectionUnit, 'Protecting Office' dropped
ReformatRow(r) ==
    [reportdate |-> r["reportdate"], Acres |-> r["Acres"],
     Year |-> YearOf(r["reportdate"]), Month |-> MonthOf(r["reportdate"]),
     Day |-> DayOf(r["reportdate"]), ProtectionUnit |-> r["POLabel"]]

reformat_newdata(t) == [i \in DOMAIN t |-> ReformatRow(t[i])]

\* a row in a table with the given columns: a column it lacks is missing
Widen(r, cols) == [c \in cols |-> IF c \in DOMAIN r THEN r[c] ELSE CountNaN]

WidenAll(t, cols) == [i \in DOMAIN t |-> Widen(t[i], cols)]

NewColumns == {"reportdate", "Acres", "Year", "Month", "Day", "ProtectionUnit"}

RECURSIVE DropDuplicates(_)
DropDuplicates(t) ==
    IF t = <<>> THEN <<>>
    ELSE LET front == DropDuplicates(SubSeq(t, 1, Len(t) - 1))
             last  == t[Len(t)]
         IN  IF \E i \in DOMAIN front : front[i] = last THEN front
             ELSE Append(front, last)

\* the concatenation followed by a removal of repeated rows
combine_daily_totals_dedup(old, new) ==
    DropDuplicates(WidenAll(old.rows, old.columns \cup NewColumns)
                   \o WidenAll(new, old.columns \cup NewColumns))

\* combine_daily_totals: pd.concat([olddata, dailyarea], ignore_index=True)
combine_daily_totals(old, new) ==
    WidenAll(old.rows, old.columns \cup NewColumns)
    \o WidenAll(new, old.columns \cup NewColumns)

OldDropColumns == {"Month", "Day", "TotalFires", "ProtectionUnit"}

RECURSIVE SumOld(_, _)
SumOld(t, key) ==
    IF t = <<>> THEN 0
    ELSE (IF <<Head(t)["reportdate"], Head(t)["Year"]>> = key THEN Head(t)["Acres"] ELSE 0)
         + SumOld(Tail(t), key)

\* olddata_to_daily: drop(..., inplace=True) changes the caller's table, then
\* groupby(['reportdate', 'Year']).sum() makes the new one.  The drop raises
\* KeyError, changing nothing, when one of the columns is not there.
olddata_to_daily(old) ==
    IF ~(OldDropColumns \subseteq old.columns)
    THEN [outcome |-> "KeyError", argument |-> old, table |-> {}]
    ELSE LET cols == old.columns \ OldDropColumns
             rows == [i \in DOMAIN old.rows |-> Restrict(old.rows[i], cols)]
         IN  [outcome  |-> "returned",
              argument |-> [columns |-> cols, rows |-> rows],
              table    |-> {[reportdate |-> k[1], Year |-> k[2], Acres |-> SumOld(rows, k)] :
                              k \in {<<rows[i]["reportdate"], rows[i]["Year"]>> : i \in DOMAIN rows}}]

mergeframe == <<datadir, all_updates, all_updates_PSA, dailyarea_by_PSA>>

\* main step 6 without the legacy file: the message, and on to the plot
SkipOld ==
    /\ ppc = "tallied Zone"
    /\ ~olddatafp.exists
    /\ ppc' = "old data not found"
    /\ UNCHANGED <<mergeframe, dailyarea_by_Zone, mergevars>>
    /\ UNCHANGED <<fetchvars, aggvars, lightvars>>

\* olddata = ft.load_old_data(OLDDATAFP)
LoadOld ==
    /\ ppc = "tallied Zone"
    /\ olddatafp.exists
    /\ LET res == load_old_data(olddatafp.rows)
       IN  /\ ppc' = IF res.outcome = "returned" THEN "loaded" ELSE res.outcome
           /\ olddata' = [columns |-> res.columns, rows |-> res.rows]
    /\ UNCHANGED <<mergeframe, dailyarea_by_Zone, olddatafp,
                   dailyarea_by_Zone_reformatted, alldaily_totals, olddata_daily>>
    /\ UNCHANGED <<fetchvars, aggvars, lightvars>>

\* dailyarea_by_Zone_reformatted = ft.reformat_newdata(dailyarea_by_Zone): every
\* statement of reformat_newdata works on the table it was handed and that
\* same table is returned
Reformat ==
    /\ ppc = "loaded"
    /\ LET t == reformat_newdata(AsTable(dailyarea_by_Zone))
       IN  /\ dailyarea_by_Zone_reformatted' = t
           /\ dailyarea_by_Zone' = {t[i] : i \in DOMAIN t}
    /\ ppc' = "reformatted"
    /\ UNCHANGED <<mergeframe, olddatafp, olddata, alldaily_totals, olddata_daily>>
    /\ UNCHANGED <<fetchvars, aggvars, lightvars>>

\* alldaily_totals = ft.combine_daily_totals(olddata, dailyarea_by_Zone_reformatted)
Combine ==
    /\ ppc = "reformatted"
    /\ alldaily_totals' = combine_daily_totals(olddata, dailyarea_by_Zone_reformatted)
    /\ ppc' = "combined"
    /\ UNCHANGED <<mergeframe, dailyarea_by_Zone, olddatafp, olddata,
                   dailyarea_by_Zone_reformatted, olddata_daily>>
    /\ UNCHANGED <<fetchvars, aggvars, lightvars>>

\* olddata_daily = ft.olddata_to_daily(olddata)
OldToDaily ==
    /\ ppc = "combined"
    /\ LET res == olddata_to_daily(olddata)
       IN  /\ ppc' = IF res.outcome = "returned" THEN "old daily" ELSE res.outcome
           /\ olddata' = res.argument
           /\ olddata_daily' = res.table
    /\ UNCHANGED <<mergeframe, dailyarea_by_Zone, olddatafp,
                   dailyarea_by_Zone_reformatted, alldaily_totals>>
    /\ UNCHANGED <<fetchvars, aggvars, lightvars>>

-----------------------------------------------------------------------------
(* scripts/download_lightning.py: download_lightning_data *)

\* params['resultRecordCount']
PageSize == 2000

\* the features of the response to a query with the given resultOffset: the
\* service's records are numbered in its order, and it returns the next ones,
\* as many as were asked for and no more than its own limit
Page(svc, off) ==
    [i \in 1..Min(Min(PageSize, svc.limit), IF svc.n > off THEN svc.n - off ELSE 0) |-> off + i]

NextOffset_one(off, features) == off + 1

\* offset += len(features)
NextOffset(off, features) == off + Len(features)

\* one turn of the loop whose response is a page of features
LightPage ==
    /\ lpc = "loop"
    /\ sent' = Append(sent, [resultOffset |-> offset, collected |-> Len(all_features)])
    /\ LET features == Page(service, offset)
       IN  IF features = <<>>
           THEN /\ lpc' = "returned"
                /\ lend' = "empty page"
                /\ UNCHANGED <<offset, all_features>>
           ELSE /\ all_features' = all_features \o features
                /\ IF Len(features) < PageSize
                   THEN /\ lpc' = "returned"
                        /\ lend' = "short page"
                        /\ UNCHANGED offset
                   ELSE /\ offset' = NextOffset(offset, features)
                        /\ UNCHANGED <<lpc, lend>>
    /\ UNCHANGED service
    /\ UNCHANGED <<pipevars, fetchvars, aggvars, mergevars>>

\* the ways a turn of the loop ends without a page
Failures == {"error in data", "RequestException", "JSONDecodeError"}

\* one turn of the loop whose response carries 'error', or whose request or
\* decoding raises: the loop is left and all_features returned
LightFail ==
    /\ lpc = "loop"
    /\ sent' = Append(sent, [resultOffset |-> offset, collected |-> Len(all_features)])
    /\ \E kind \in Failures : lend' = kind
    /\ lpc' = "returned"
    /\ UNCHANGED <<service, offset, all_features>>
    /\ UNCHANGED <<pipevars, fetchvars, aggvars, mergevars>>

-----------------------------------------------------------------------------
(* Inputs *)

\* texts of up to MaxRawLen characters over the characters that decide
\* extract_zone, plus texts in the shapes the reports use
Alphabet == {"(", ")", "T", "A", "D", " "}

SampleTexts ==
    ZoneLabels \cup
    {<<"U","p","p","e","r"," ","Y","u","k","o","n"," ","Z","o","n","e"," ","O","f","f","i","c","e"," ","(","U","Y","D",")">>,
     <<"T","a","n","a","n","a"," ","Z","o","n","e"," ","(","T","A","D",")">>,
     <<"S","t","a","t","e"," ","P","a","r","k","s">>}

\* Cell values of the 'Protecting Office' column.  pd.read_excel turns an empty
\* cell (and the empty string) into NaN, so the empty text is no cell value.
RawValues ==
    {NaN} \cup SampleTexts \cup
    UNION {[1..n -> Alphabet] : n \in 1..MaxRawLen}

\* download_reports is not running
FetchOff ==
    /\ fpc = "off"
    /\ overwrite = FALSE
    /\ outdir = {}
    /\ outdir0 = {}
    /\ day = 0
    /\ requests = <<>>
    /\ writes = <<>>
    /\ printed = <<>>
    /\ lastdate = 0

\* main is not running
PipeOff ==
    /\ ppc = "off"
    /\ datadir = <<>>
    /\ all_updates = <<>>
    /\ all_updates_PSA = <<>>
    /\ dailyarea_by_PSA = {}
    /\ dailyarea_by_Zone = {}

\* aggregate_by_day_region is not being called on its own
AggOff ==
    /\ apc = "off"
    /\ updatesDF = <<>>
    /\ region = "PSA"
    /\ dailyarea_agg = {}
    /\ aprinted = <<>>
    /\ dailyarea_again = {}

\* no call of download_lightning_data
LightOff ==
    /\ lpc = "off"
    /\ service = [n |-> 0, limit |-> PageSize]
    /\ offset = 0
    /\ all_features = <<>>
    /\ sent = <<>>
    /\ lend = "none"

\* main has not reached step 6
MergeOff ==
    /\ olddatafp = [exists |-> FALSE, rows |-> <<>>]
    /\ olddata = [columns |-> {}, rows |-> <<>>]
    /\ dailyarea_by_Zone_reformatted = <<>>
    /\ alldaily_totals = <<>>
    /\ olddata_daily = {}

\* a call of download_reports: any overwrite flag, any files already there
InitFetch ==
    /\ fpc = "loop"
    /\ overwrite \in BOOLEAN
    /\ outdir0 \in SUBSET ReportDates
    /\ outdir = outdir0
    /\ day = 0
    /\ requests = <<>>
    /\ writes = <<>>
    /\ printed = <<>>
    /\ lastdate = 0
    /\ PipeOff
    /\ AggOff
    /\ MergeOff
    /\ LightOff

EmptyTables ==
    /\ all_updates = <<>>
    /\ all_updates_PSA = <<>>
    /\ dailyarea_by_PSA = {}
    /\ dailyarea_by_Zone = {}

\* one report file with one row, any protecting-office cell
InitZone ==
    /\ \E po \in RawValues :
          datadir = (STARTDATE :> <<FileRow(1, po, "WF-Wildfire", 1, "inP1")>>)
    /\ ppc = "start"
    /\ EmptyTables
    /\ FetchOff
    /\ AggOff
    /\ MergeOff
    /\ LightOff

AssemblePayloads == {[po |-> <<"T","A","D">>, acres |-> 1], [po |-> NaN, acres |-> 2]}

\* any set of dated report files, dates contiguous or not; the rows of a file
\* carry OBJECTID 1, 2, ...
InitAssemble ==
    /\ \E D \in SUBSET ReportDates :
          datadir \in [D -> UNION {[1..n -> {FileRow(i, p.po, "WF-Wildfire", p.acres, "inP1") :
                                              p \in AssemblePayloads, i \in 1..MaxRows}]
                                   : n \in 0..MaxRows}]
    /\ \A d \in DOMAIN datadir : \A i \in DOMAIN datadir[d] : datadir[d][i].OBJECTID = i
    /\ ppc = "start"
    /\ EmptyTables
    /\ FetchOff
    /\ AggOff
    /\ MergeOff
    /\ LightOff

\* the tables handed to aggregate_by_day_region: rows as add_psa returns them,
\* in ascending order of report date
AggTexts == {<<"T","a","n","a","n","a"," ","Z","o","n","e"," ","(","T","A","D",")">>,
             <<"S","t","a","t","e"," ","P","a","r","k","s">>,
             NaN}
AggAcres == {0, 1, AcresNaN}
AggDates == {STARTDATE, STARTDATE + 1}

AggRows ==
    {JoinRow(NormalizeRow(TagRow(FileRow(1, po, "WF-Wildfire", ac, poly.covers), d)), poly) :
        po \in AggTexts, ac \in AggAcres, d \in AggDates, poly \in psa_GDF}

Regions == {"PSA", "Zone", "County"}

InitAgg ==
    /\ apc = "call"
    /\ updatesDF \in UNION {[1..n -> AggRows] : n \in 0..MaxAggRows}
    /\ \A i, j \in DOMAIN updatesDF :
          i < j => updatesDF[i].reportdate <= updatesDF[j].reportdate
    /\ region \in Regions
    /\ dailyarea_agg = {}
    /\ aprinted = <<>>
    /\ dailyarea_again = {}
    /\ PipeOff
    /\ FetchOff
    /\ MergeOff
    /\ LightOff

\* the report files of a run of main, given as the list of their records
PipeTexts == {<<"T","a","n","a","n","a"," ","Z","o","n","e"," ","(","T","A","D",")">>,
              <<"S","t","a","t","e"," ","P","a","r","k","s">>}
PipeTypes == {"WF-Wildfire", "RX-Prescribed Fire", TypeNaN}
PipeAcres == {0, 1}
PipeLocs == {"inP1", "outside"}

PipeRecords ==
    [date : AggDates, po : PipeTexts, itype : PipeTypes, acres : PipeAcres, loc : PipeLocs]

\* the file of date d: the records of that date, numbered 1, 2, ...
FileOf(recs, d) ==
    LET mine == SelectSeq(recs, LAMBDA r : r.date = d)
    IN  [i \in DOMAIN mine |->
            FileRow(i, mine[i].po, mine[i].itype, mine[i].acres, mine[i].loc)]

InitPipe ==
    /\ \E recs \in UNION {[1..n -> PipeRecords] : n \in 0..MaxRecords} :
          datadir = [d \in {recs[i].date : i \in DOMAIN recs} |-> FileOf(recs, d)]
    /\ ppc = "start"
    /\ EmptyTables
    /\ FetchOff
    /\ AggOff
    /\ MergeOff
    /\ LightOff

\* the legacy CSV: one row per day and protection unit, in any order; a cell of
\* TotalFires may be empty
OldDays == {<<2024, 12, 30>>, <<2024, 12, 31>>, <<2025, 4, 21>>}
OldFires == {1, CountNaN}

OldCsvRows ==
    {[ID |-> id, FireSeason |-> ymd[1], Month |-> ymd[2], Day |-> ymd[3],
      SitReportDate |-> to_datetime(ymd[1], ymd[2], ymd[3]),
      ProtectionUnit |-> <<"T","A","D">>, TotalFires |-> f, TotalAcres |-> 7] :
        id \in 1..MaxOldRows, ymd \in OldDays, f \in OldFires}

OldFiles ==
    {[exists |-> FALSE, rows |-> <<>>]} \cup
    {[exists |-> TRUE, rows |-> rows] :
        rows \in {t \in UNION {[1..n -> OldCsvRows] : n \in 0..MaxOldRows} :
                    \A i \in DOMAIN t : t[i].ID = i}}

\* the report files of a run of main that reaches step 6
MergeRecords ==
    [date : AggDates, po : {<<"T","a","n","a","n","a"," ","Z","o","n","e"," ","(","T","A","D",")">>, NaN},
     itype : {"WF-Wildfire"}, acres : {1}, loc : {"inP1"}]

\* main after step 4 on some report files, with or without a legacy CSV
InitMerge ==
    /\ \E recs \in UNION {[1..n -> MergeRecords] : n \in 1..MaxRecords} :
          /\ datadir = [d \in {recs[i].date : i \in DOMAIN recs} |-> FileOf(recs, d)]
          /\ \E t \in assemble_dataframe(datadir) : all_updates = FilterTypes(t)
    /\ all_updates_PSA = add_psa(all_updates)
    /\ dailyarea_by_PSA = aggregate_by_day_region(all_updates_PSA, "PSA").table
    /\ dailyarea_by_Zone = aggregate_by_day_region(all_updates_PSA, "Zone").table
    /\ ppc = "tallied Zone"
    /\ olddatafp \in OldFiles
    /\ olddata = [columns |-> {}, rows |-> <<>>]
    /\ dailyarea_by_Zone_reformatted = <<>>
    /\ alldaily_totals = <<>>
    /\ olddata_daily = {}
    /\ FetchOff
    /\ AggOff
    /\ LightOff

\* the feature service: nothing, a few records, about one page, about several
ServiceSizes ==
    {0, 1} \cup {(k * PageSize) + d - 1 : k \in 1..MaxPages, d \in 0..2}

\* the most the service returns for one query: less than is asked for, that
\* much, or more
ServiceLimits == {PageSize \div 2, PageSize, 2 * PageSize}

\* a call of download_lightning_data
InitLight ==
    /\ lpc = "loop"
    /\ service \in [n : ServiceSizes, limit : ServiceLimits]
    /\ offset = 0
    /\ all_features = <<>>
    /\ sent = <<>>
    /\ lend = "none"
    /\ PipeOff
    /\ FetchOff
    /\ AggOff
    /\ olddatafp = [exists |-> FALSE, rows |-> <<>>]
    /\ olddata = [columns |-> {}, rows |-> <<>>]
    /\ dailyarea_by_Zone_reformatted = <<>>
    /\ alldaily_totals = <<>>
    /\ olddata_daily = {}

NextAssemble == Assemble

NextLight == LightPage \/ LightFail

NextMerge == SkipOld \/ LoadOld \/ Reformat \/ Combine \/ OldToDaily

NextAgg == Aggregate \/ Reaggregate

NextPipe == Assemble \/ Filter \/ AddPsa \/ TallyPSA \/ TallyZone

NextFetch == FetchReturn \/ FetchSkip \/ FetchPrimary \/ FetchFallback

SpecZone == InitZone /\ [][NextAssemble]_vars
SpecAssemble == InitAssemble /\ [][NextAssemble]_vars
SpecFetch == InitFetch /\ [][NextFetch]_vars
SpecAgg == InitAgg /\ [][NextAgg]_vars
SpecPipe == InitPipe /\ [][NextPipe]_vars
SpecMerge == InitMerge /\ [][NextMerge]_vars
SpecLight == InitLight /\ [][NextLight]_vars

-----------------------------------------------------------------------------
(* Zone normalisation: C1, C2, C9 (under SpecZone: one file, one row) *)

\* the cell read from the file, and the row assembled from it
ZoneCell == datadir[STARTDATE][1].PO
ZoneRow == all_updates[1]
ZoneDone == ppc = "assembled" /\ Len(all_updates) = 1

\* labels of the known codes that occur in the text as "(XXX)"
ParenLabels(text) ==
    {PROTECTING_OFFICES[SubSeq(text, i + 1, i + 3)] :
        i \in {i \in 1..(Len(text) - 4) :
                 /\ text[i] = "("
                 /\ text[i + 4] = ")"
                 /\ SubSeq(text, i + 1, i + 3) \in ZoneCodes}}

\* C1: extract_zone follows the chain (1) label of a known parenthesized code,
\* (2) the text itself when it is a canonical label, (3) the text unchanged;
\* so a text without a known parenthesized code comes back unchanged.
C1_FallbackChain ==
    ZoneDone =>
        LET text == fillna(ZoneCell)
        IN  IF ParenLabels(text) # {}
            THEN ZoneRow.PO \in ParenLabels(text)
            ELSE ZoneRow.PO = text

\* C2: the code label is the code of a canonical label, "n/a" for "n/a", and the
\* label itself for any other label; it is never missing.
C2_CodeLabel ==
    \A i \in DOMAIN all_updates :
        LET row == all_updates[i]
        IN  /\ row.POLabel # NaN
            /\ row.PO \in ZoneLabels =>
                  /\ row.POLabel \in ZoneCodes
                  /\ PROTECTING_OFFICES[row.POLabel] = row.PO
            /\ row.PO = NA_LABEL => row.POLabel = NA_LABEL
            /\ row.PO \notin ZoneLabels \cup {NA_LABEL} => row.POLabel = row.PO

IsBlank(text) == \A i \in DOMAIN text : text[i] = " "

\* C9: every cell, missing and blank ones included, gets a non-empty label, and
\* a missing or blank cell gets "n/a".
C9_TotalNormalization ==
    ZoneDone =>
        /\ ZoneRow.PO # <<>>
        /\ ZoneRow.PO # NaN
        /\ (ZoneCell = NaN \/ IsBlank(ZoneCell)) => ZoneRow.PO = NA_LABEL

-----------------------------------------------------------------------------
(* Assembly: C10 (under SpecAssemble) *)

Count(t, r) == Cardinality({i \in DOMAIN t : t[i] = r})

RECURSIVE SumLen(_, _)
SumLen(dir, D) ==
    IF D = {} THEN 0
    ELSE LET d == CHOOSE d \in D : TRUE
         IN  Len(dir[d]) + SumLen(dir, D \ {d})

\* the rows file d contributes, as they should appear in the result
RowsOfFile(d) == [i \in DOMAIN datadir[d] |-> NormalizeRow(TagRow(datadir[d][i], d))]

\* C10: the result has exactly the rows of all the files (as many, and each row
\* as often as its file has it), each tagged with the date of its file, in
\* ascending order of report date.
C10_AssembleAllRows ==
    ppc = "assembled" =>
        /\ Len(all_updates) = SumLen(datadir, DOMAIN datadir)
        /\ \A i \in DOMAIN all_updates : all_updates[i].reportdate \in DOMAIN datadir
        /\ \A d \in DOMAIN datadir :
              \A r \in {all_updates[i] : i \in DOMAIN all_updates}
                       \cup {RowsOfFile(d)[i] : i \in DOMAIN datadir[d]} :
                  r.reportdate = d => Count(all_updates, r) = Count(RowsOfFile(d), r)
        /\ \A i, j \in DOMAIN all_updates :
              i < j => all_updates[i].reportdate <= all_updates[j].reportdate

\* files for two dates with a gap between them, each with more than one row
C10_Witness ==
    /\ ppc = "assembled"
    /\ DOMAIN datadir = {STARTDATE, STARTDATE + 2}
    /\ Len(datadir[STARTDATE]) = 2
    /\ Len(datadir[STARTDATE + 2]) = 2
    /\ Len(all_updates) = 4
    /\ all_updates[1].Acres # all_updates[2].Acres

-----------------------------------------------------------------------------
(* download_reports: C6, C7, C8 (under SpecFetch) *)

\* C6: a network failure while processing one date is caught and logged, the
\* loop goes on to the remaining dates, and the run is never aborted by it:
\* download_reports never ends by an exception, and a request that raised is
\* followed by a printed message for its date.
C6_NetworkFailureSkipsDay ==
    /\ fpc # "raised"
    /\ \A i \in DOMAIN requests :
          requests[i].raised =>
              \E j \in DOMAIN printed : printed[j][2] = requests[i].date

RequestsFor(d) == SelectSeq(requests, LAMBDA r : r.date = d)

\* C7: without overwrite no request is issued and nothing is written for a date
\* whose target file existed; an existing file is fetched again only with
\* overwrite.
C7_NoDuplicateDownload ==
    \A d \in outdir0 :
        ~overwrite =>
            /\ RequestsFor(d) = <<>>
            /\ \A i \in DOMAIN writes : writes[i] # d

\* the loop has passed an existing file without overwrite and gone on to
\* request a later date
C7_Witness ==
    /\ fpc = "returned"
    /\ ~overwrite
    /\ DateAt(1) \in outdir0
    /\ \E i \in DOMAIN printed : printed[i] = <<"already exists", DateAt(1)>>
    /\ \E i \in DOMAIN writes : writes[i] = DateAt(2)

\* dates the loop has finished or is working on
Started(k) == k <= day \/ (k = day + 1 /\ fpc \in {"fallback", "raised"})

\* C8: per date that is not skipped: the primary URL is requested first, the
\* fallback only after a non-200 answer of the primary, at most these two
\* requests are made, the file is written only after a 200 answer, and after
\* two non-200 answers nothing is written, 'not present' is printed and the
\* loop goes on with the next date.
C8_PrimaryThenFallback ==
    \A k \in 1..MaxDays :
        LET d  == DateAt(k)
            rs == RequestsFor(d)
            written == \E i \in DOMAIN writes : writes[i] = d
        IN  /\ Len(rs) <= 2
            /\ (Started(k) /\ ~(d \in outdir0 /\ ~overwrite)) => Len(rs) >= 1
            /\ Len(rs) >= 1 => rs[1].url = "primary"
            /\ Len(rs) = 2 =>
                  /\ rs[2].url = "fallback"
                  /\ ~rs[1].raised
                  /\ rs[1].status # 200
            /\ written =>
                  /\ Len(rs) >= 1
                  /\ ~rs[Len(rs)].raised
                  /\ rs[Len(rs)].status = 200
            /\ Cardinality({i \in DOMAIN writes : writes[i] = d}) <= 1
            /\ (Len(rs) = 2 /\ ~rs[2].raised /\ rs[2].status # 200) =>
                  /\ ~written
                  /\ \E i \in DOMAIN printed :
                        printed[i] = <<"File not present on server", d>>
                  /\ day >= k
                  /\ requests[Len(requests)] = rs[2] => fpc \in {"loop", "returned"}

\* both URLs of the first date answered non-200 and the second date was then
\* fetched through its fallback URL
C8_Witness ==
    /\ fpc = "returned"
    /\ Len(RequestsFor(DateAt(1))) = 2
    /\ RequestsFor(DateAt(1))[2].status = 404
    /\ ~(\E i \in DOMAIN writes : writes[i] = DateAt(1))
    /\ Len(RequestsFor(DateAt(2))) = 2
    /\ \E i \in DOMAIN writes : writes[i] = DateAt(2)

-----------------------------------------------------------------------------
(* aggregate_by_day_region: C4, C5 (under SpecAgg) *)

\* every value of the full grouping key that occurs in the table
KeysIn(t, cols) == {KeyOf(t[i], cols) : i \in DOMAIN t}

RowsWithKey(rows, cols, key) == {r \in rows : KeyOf(r, cols) = key}

\* C4: for region 'PSA' or 'Zone' the result has exactly one row per value of
\* the full grouping key that occurs in the input with a sum of Acres that is
\* not zero, that row carries the sum, and no row has zero or missing Acres.
C4_OneRowPerKey ==
    (apc = "returned" /\ region \in DOMAIN GROUPINGS) =>
        LET cols == GROUPINGS[region]
        IN  /\ \A key \in KeysIn(updatesDF, cols) :
                  LET total == SumAcres(updatesDF, cols, key)
                      found == RowsWithKey(dailyarea_agg, cols, key)
                  IN  IF total = 0
                      THEN found = {}
                      ELSE /\ Cardinality(found) = 1
                           /\ \A r \in found : r["Acres"] = total
            /\ \A r \in dailyarea_agg :
                  /\ KeyOf(r, cols) \in KeysIn(updatesDF, cols)
                  /\ r["Acres"] # 0
                  /\ r["Acres"] # AcresNaN

\* C5: for a region that is neither 'PSA' nor 'Zone' the call prints the
\* unrecognized-region message and ends as a reported error, not by an
\* unrelated exception.
C5_UnknownRegionReported ==
    (apc # "call" /\ region \notin DOMAIN GROUPINGS) =>
        /\ aprinted # <<>>
        /\ apc \notin {"UnboundLocalError"}

-----------------------------------------------------------------------------
(* the pipeline of main: C3 (under SpecPipe) *)

\* the records of the report files that pass the type filter and lie in a PSA
Tallied ==
    {<<d, i>> \in UNION {{<<d, i>> : i \in DOMAIN datadir[d]} : d \in DOMAIN datadir} :
        /\ datadir[d][i].IncidentType # TypeNaN
        /\ datadir[d][i].IncidentType \notin EXCLUDE_TYPES
        /\ \E poly \in psa_GDF : poly.covers = datadir[d][i].Loc}

\* the zone of a record: its normalized protecting-office label
ZoneOf(rec) == extract_zone([PO |-> fillna(rec.PO)])

RECURSIVE SumOver(_)
SumOver(S) ==
    IF S = {} THEN 0
    ELSE LET x == CHOOSE x \in S : TRUE
         IN  datadir[x[1]][x[2]].Acres + SumOver(S \ {x})

\* C3: after the Zone tally, every (report date, zone) combination of the
\* tallied input records has exactly one row, with the sum of its records'
\* Acres, unless that sum is zero; no record is left out because its
\* protecting office did not resolve to a known zone.
C3_ZoneTallyComplete ==
    ppc = "tallied Zone" =>
        \A x \in Tallied :
            LET z     == ZoneOf(datadir[x[1]][x[2]])
                group == {y \in Tallied : y[1] = x[1] /\ ZoneOf(datadir[y[1]][y[2]]) = z}
                total == SumOver(group)
                found == {r \in dailyarea_by_Zone : r["reportdate"] = x[1] /\ r["PO"] = z}
            IN  IF total = 0
                THEN found = {}
                ELSE /\ Cardinality(found) = 1
                     /\ \A r \in found : r["Acres"] = total


-----------------------------------------------------------------------------
(* The historical merge *)

MergeDone == ppc = "combined"

DatesOf(t) == {t[i]["reportdate"] : i \in DOMAIN t}

SortedByDate(t) ==
    \A i, j \in DOMAIN t : i < j => t[i]["reportdate"] <= t[j]["reportdate"]

\* the result holds the legacy rows, then the current-year rows, each once and
\* with the values it had
PlainConcatenation ==
    /\ Len(alldaily_totals) = Len(olddata.rows) + Len(dailyarea_by_Zone_reformatted)
    /\ \A i \in DOMAIN olddata.rows :
          Restrict(alldaily_totals[i], olddata.columns) = olddata.rows[i]
    /\ \A j \in DOMAIN dailyarea_by_Zone_reformatted :
          Restrict(alldaily_totals[Len(olddata.rows) + j], NewColumns)
              = dailyarea_by_Zone_reformatted[j]

\* the legacy data ends before the current-year data starts
OldEndsBeforeNew ==
    \A d \in DatesOf(olddata.rows) :
        \A e \in DatesOf(dailyarea_by_Zone_reformatted) : d < e

SpansAndSorted ==
    /\ DatesOf(alldaily_totals)
          = DatesOf(olddata.rows) \cup DatesOf(dailyarea_by_Zone_reformatted)
    /\ SortedByDate(alldaily_totals)

\* C11 as stated: after the merge the combined table is the plain
\* concatenation of the legacy rows and the current-year rows, and whenever
\* the legacy data ends before the current-year data starts it spans both date
\* ranges and is sorted by date.
C11_MergeSorted ==
    MergeDone => /\ PlainConcatenation
                 /\ OldEndsBeforeNew => SpansAndSorted

\* C11 amended: after the merge the combined table is the plain concatenation
\* of the legacy rows and the current-year rows, nothing removed or
\* reconciled, and whenever the legacy rows are in date order in their file
\* and end before the current-year data starts, it spans both date ranges and
\* is sorted by date.
C11_MergeSortedWhenOldSorted ==
    MergeDone => /\ PlainConcatenation
                 /\ (OldEndsBeforeNew /\ SortedByDate(olddata.rows)) => SpansAndSorted

\* a merge of two equal legacy rows, in date order, with later current-year rows
C11_Witness ==
    /\ MergeDone
    /\ Len(olddata.rows) = 2
    /\ olddata.rows[1] = olddata.rows[2]
    /\ Len(dailyarea_by_Zone_reformatted) = 2
    /\ OldEndsBeforeNew
    /\ SortedByDate(olddata.rows)

-----------------------------------------------------------------------------
(* The stages and the tables they are handed *)

\* C12: each stage of step 6 leaves the table it is handed as it was:
\* reformat_newdata leaves main's dailyarea_by_Zone, combine_daily_totals leaves
\* olddata and dailyarea_by_Zone_reformatted, and olddata_to_daily leaves
\* olddata, with the same columns and rows after the call as before it.
C12_StagesLeaveInput ==
    [][/\ ppc = "loaded" => dailyarea_by_Zone' = dailyarea_by_Zone
       /\ ppc = "reformatted" =>
              /\ olddata' = olddata
              /\ dailyarea_by_Zone_reformatted' = dailyarea_by_Zone_reformatted
       /\ ppc = "combined" => olddata' = olddata]_vars

-----------------------------------------------------------------------------
(* Aggregating an aggregated table *)

\* C13: for either region mode, aggregate_by_day_region applied with the same
\* mode to the table it returned returns that table again: the same keys with
\* the same Acres.
C13_AggregateIdempotent ==
    apc = "returned again" => dailyarea_again = dailyarea_agg

\* a second call on a tally whose one row sums two input rows
C13_Witness ==
    /\ apc = "returned again"
    /\ Len(updatesDF) = 2
    /\ Cardinality(dailyarea_agg) = 1
    /\ \E r \in dailyarea_agg : r["Acres"] = 2
    /\ dailyarea_again # {}

-----------------------------------------------------------------------------
(* Paging through the lightning feature service *)

\* the first k records of the service, in its order
Records(k) == [i \in 1..k |-> i]

====
